---- MODULE Spec2Model ----
(***************************************************************************)
(* State-machine model of musepsf: the Image class (image.py) and its      *)
(* MUSE subclass MUSEImage (musepsf.py).                                    *)
(*                                                                         *)
(* Two images live in the model: "tgt", a MUSEImage, and "ref", an Image.  *)
(* Lengths on the sky and pixel scales are integers in units of 0.0001     *)
(* arcsec, so that np.around(scale, 3) is a real rounding.  A pixel array  *)
(* is a shape, a few sample pixels and a common denominator: the value of  *)
(* a sample is v / den, which keeps every multiplication and division of   *)
(* the code exact.                                                         *)
(*                                                                         *)
(* img, muse and disk are the program's state: the attributes of the two   *)
(* objects and the files written.  call, pre, ret and opt record the last  *)
(* method call: its name, arguments and outcome, the state it started      *)
(* from, the value it returned and the arguments it handed to the          *)
(* optimizer run_measure_psf.                                              *)
(***************************************************************************)
EXTENDS Integers, Sequences, FiniteSets, TLC

VARIABLES img, muse, disk, call, pre, ret, opt, ncalls

vars == <<img, muse, disk, call, pre, ret, opt, ncalls>>

\* Number of method calls in one behaviour.
MaxCalls == 2

Imgs == {"tgt", "ref"}
Other(i) == IF i = "tgt" THEN "ref" ELSE "tgt"

----------------------------------------------------------------------------
\* Python's None and a present value.
None == [some |-> FALSE]
Some(x) == [some |-> TRUE, val |-> x]

Abs(x) == IF x < 0 THEN -x ELSE x

\* The element of a one-element set: The({f(x) : x \in {e}}) is f(e) with e
\* evaluated once.
The(S) == CHOOSE r \in S : TRUE

RECURSIVE GCD(_, _)
GCD(a, b) == IF b = 0 THEN Abs(a) ELSE GCD(b, a % b)

----------------------------------------------------------------------------
\* Pixels: a finite number, NaN, or an infinity.
Num(v) == [k |-> "num", v |-> v]
NaN == [k |-> "nan", v |-> 0]
PInf == [k |-> "inf", v |-> 1]
NInf == [k |-> "inf", v |-> -1]

IsNum(p) == p.k = "num"
IsNaNPix(p) == p.k = "nan"

\* gcd of the finite samples of a sequence of pixels and of d.
RECURSIVE GcdPix(_, _)
GcdPix(s, d) == IF s = <<>> THEN d ELSE GcdPix(Tail(s), IF IsNum(Head(s)) THEN GCD(Head(s).v, d) ELSE d)

\* The same array with pix and den in lowest terms.
DivBy(a, g) == [a EXCEPT !.pix = [i \in DOMAIN a.pix |-> IF IsNum(a.pix[i]) THEN Num(a.pix[i].v \div g) ELSE a.pix[i]], !.den = a.den \div g]
Reduce(a) == The({DivBy(b, g) : <<b, g>> \in {<<a, GcdPix(a.pix, a.den)>>}})

\* array * (num / dn), with num >= 0 and dn > 0 (the pixel-area factors).
\* The common factors are cancelled before multiplying.
ScaleBy(a, n, d, g2, g3) == [a EXCEPT !.pix = [i \in DOMAIN a.pix |-> IF IsNum(a.pix[i]) THEN Num((a.pix[i].v \div g3) * (n \div g2)) ELSE a.pix[i]], !.den = (a.den \div g2) * (d \div g3)]
ScaleArr(a, num, dn) == The({Reduce(ScaleBy(b, f[1], f[2], GCD(f[1], b.den), GcdPix(b.pix, f[2]))) : <<b, f>> \in {<<a, <<num \div GCD(num, dn), dn \div GCD(num, dn)>>>>}})

----------------------------------------------------------------------------
\* A pixel grid as a FITS header describes it.  scale: pixel scale; w, h:
\* NAXIS1, NAXIS2; ra0, dec0: sky position of pixel (0, 0); rot: position
\* angle of the y axis in degrees.
Grid(scale, w, h, rot) == [scale |-> scale, w |-> w, h |-> h, ra0 |-> 0, dec0 |-> 0, rot |-> rot]

\* astropy.wcs.WCS(header): the transform cards of the header, without the
\* other cards (BUNIT).
WCS(header) == header.grid

\* wcs.proj_plane_pixel_scales()[0].to(u.arcsec).value
PixelScale(wcs) == wcs.scale

\* wcs.proj_plane_pixel_area(), in units of (0.0001 arcsec)^2
PixelArea(wcs) == wcs.scale * wcs.scale

\* np.around(x, 3) of a value in arcsec held in units of 0.0001 arcsec:
\* round half to even on the fourth decimal.
Around3(s) == LET q == s \div 10 r == s % 10 IN IF r < 5 THEN q * 10 ELSE IF r > 5 THEN (q + 1) * 10 ELSE IF q % 2 = 0 THEN q * 10 ELSE (q + 1) * 10

----------------------------------------------------------------------------
\* The files the two images are constructed from.
TgtGrid == Grid(2001, 40, 40, 0)
RefGrid == Grid(1000, 80, 80, 0)

FileOf(i) == IF i = "tgt" THEN [data |-> [shape |-> <<40, 40>>, pix |-> <<Num(4), NaN, Num(0)>>, den |-> 1, masked |-> FALSE], header |-> [grid |-> TgtGrid, bunit |-> "flux"]] ELSE [data |-> [shape |-> <<80, 80>>, pix |-> <<Num(8), Num(2), Num(0)>>, den |-> 1, masked |-> FALSE], header |-> [grid |-> RefGrid, bunit |-> "flux"]]

\* Image.__init__: data and header from the file, wcs from the header,
\* galaxy, psf and stars absent.  psfscale is no attribute yet.
NewImage(i, units) == [data |-> FileOf(i).data, header |-> FileOf(i).header, wcs |-> WCS(FileOf(i).header), units |-> units, galaxy |-> None, psf |-> None, psfscale |-> None, stars |-> None]

UnitSet == {"flux", "counts"}

----------------------------------------------------------------------------
\* reproject_interp((data, header), target header): the samples interpolated
\* onto the target grid; the result is a plain array of the target's shape.
Reproject(data, header) == [data EXCEPT !.shape = <<WCS(header).h, WCS(header).w>>, !.masked = FALSE]

\* mpdaf Image(filename).crop().resample(newdim, newstep=0.2, flux=True): the
\* file's image on a grid of newdim pixels of 0.2 arcsec, the flux scaled by
\* the pixel-area ratio; mpdaf arrays are masked arrays.
NewStep == 2000

MpdafResample(i, pixscale) ==
    LET f == FileOf(i)
        g == WCS(f.header)
        newdim_y == (f.data.shape[1] * g.scale) \div pixscale
        newdim_x == (f.data.shape[2] * g.scale) \div pixscale
        ng == [g EXCEPT !.scale = NewStep, !.w = newdim_x, !.h = newdim_y]
        d == ScaleArr([f.data EXCEPT !.shape = <<newdim_y, newdim_x>>, !.masked = TRUE], NewStep * NewStep, g.scale * g.scale)
    IN [data |-> d, wcs |-> ng, header |-> [f.header EXCEPT !.grid = ng]]

\* Image.resample(header, pixscale, inplace) on image record im of image i.
\* The result: the image after the call, the outcome and the returned value.
ResampleCheckLax(header, pixscale) == IF ~header.some /\ ~pixscale.some THEN "ValueError" ELSE "ok"
ResampleCheck(header, pixscale) == IF ~header.some /\ ~pixscale.some THEN "ValueError" ELSE IF header.some /\ pixscale.some THEN "ValueError" ELSE "ok"

ResampleHeaderDone(im, header, inplace, reproj, scaled) ==
    IF inplace
    THEN [im |-> [im EXCEPT !.data = scaled, !.wcs = WCS(header), !.header = header], outcome |-> "ok", ret |-> None]
    ELSE [im |-> [im EXCEPT !.data = reproj], outcome |-> "ok", ret |-> Some([data |-> scaled, wcs |-> WCS(header), header |-> header])]

\* header mode: line 163 stores the reprojected array in self.data before
\* inplace is looked at; factor = area_new / area_old.
ResampleHeader(im, header, inplace) ==
    The({ResampleHeaderDone(im, header, inplace, a[1], a[2]) : a \in {<<r, ScaleArr(r, PixelArea(WCS(header)), PixelArea(im.wcs))>> : r \in {Reproject(im.data, header)}}})

ResamplePixscaleDone(im, r, inplace) ==
    IF inplace
    THEN [im |-> [im EXCEPT !.data = r.data, !.header = r.header, !.wcs = r.wcs], outcome |-> "ok", ret |-> None]
    ELSE [im |-> im, outcome |-> "ok", ret |-> Some(r)]

ResamplePixscale(i, im, pixscale, inplace) == The({ResamplePixscaleDone(im, r, inplace) : r \in {MpdafResample(i, pixscale)}})

ResampleResult(i, im, header, pixscale, inplace) ==
    IF ResampleCheck(header, pixscale) # "ok"
    THEN [im |-> im, outcome |-> ResampleCheck(header, pixscale), ret |-> None]
    ELSE IF header.some
         THEN ResampleHeader(im, header.val, inplace)
         ELSE ResamplePixscale(i, im, pixscale.val, inplace)

----------------------------------------------------------------------------
\* Image.mask_galaxy: EllipseSkyRegion(center, width=2*amin, height=2*amax,
\* angle=pa).
EllipseSkyRegion(center, amax, amin, pa) == [center |-> center, amax |-> amax, amin |-> amin, pa |-> pa]

MaskGalaxyResult(im, center, amax, amin, pa) == [im EXCEPT !.galaxy = Some(EllipseSkyRegion(center, amax, amin, pa))]

\* galaxy.contains(coord, wcs) for a region of position angle 0:
\* (dra / amin)^2 + (ddec / amax)^2 <= 1, cleared of fractions.
RegionContains(reg, row) ==
    LET dra == Abs(row.ra - reg.center[1])
        ddec == Abs(row.dec - reg.center[2])
        g == GCD(reg.amin, reg.amax)
        a == dra * (reg.amax \div g)
        b == ddec * (reg.amin \div g)
        l == (reg.amin \div g) * reg.amax
    IN dra <= reg.amin /\ ddec <= reg.amax /\ a * a + b * b <= l * l

\* boolean-mask indexing of a table: table[mask]
RECURSIVE ApplyMaskFrom(_, _, _)
ApplyMaskFrom(cat, mask, k) == IF k > Len(cat) THEN <<>> ELSE (IF mask[k] THEN <<cat[k]>> ELSE <<>>) \o ApplyMaskFrom(cat, mask, k + 1)

ApplyMask(cat, mask) == The({ApplyMaskFrom(c, m, 1) : <<c, m>> \in {<<cat, mask>>}})

\* utils.remove_close_stars(coords): the mask of the entries that have no
\* other entry nearer than the minimum separation (both members of a close
\* pair are dropped).
MinSep == 5000

TooClose(a, b) ==
    LET dra == Abs(a.ra - b.ra)
        ddec == Abs(a.dec - b.dec)
    IN dra < MinSep /\ ddec < MinSep /\ dra * dra + ddec * ddec < MinSep * MinSep

remove_close_stars(cat) == [k \in DOMAIN cat |-> \A j \in DOMAIN cat : j = k \/ ~TooClose(cat[k], cat[j])]

\* gaia_cat[good_stars] of get_gaia_catalog
CloseStarsRemovedRaw(cat) == cat
CloseStarsOnly(cat) == ApplyMask(cat, [k \in DOMAIN cat |-> ~remove_close_stars(cat)[k]])
CloseStarsRemoved(cat) == ApplyMask(cat, remove_close_stars(cat))

\* mask1: the G magnitude within [gmin, gmax]
MagMask(cat, gmin, gmax) == [k \in DOMAIN cat |-> cat[k].mag >= gmin /\ cat[k].mag <= gmax]

\* the margin of get_gaia_catalog, in pixels
margin == 15

\* wcs.world_to_pixel(coord): x = (ra - ra0) / scale, kept as a fraction
WorldToPixel(wcs, row) == [x |-> [num |-> row.ra - wcs.ra0, den |-> wcs.scale], y |-> [num |-> row.dec - wcs.dec0, den |-> wcs.scale]]

\* m <= q and q < n for a fraction q (den > 0) and integers m, n
FracGeq(q, m) == q.num >= m * q.den
FracLt(q, n) == q.num < n * q.den

\* valid_mask: x and y at least margin pixels from the edges of self.data
EdgeValidNoMargin(wcs, data, row) == LET p == WorldToPixel(wcs, row) IN FracGeq(p.x, 0) /\ FracLt(p.x, data.shape[2]) /\ FracGeq(p.y, 0) /\ FracLt(p.y, data.shape[1])
EdgeValid(wcs, data, row) == LET p == WorldToPixel(wcs, row) IN FracGeq(p.x, margin) /\ FracLt(p.x, data.shape[2] - margin) /\ FracGeq(p.y, margin) /\ FracLt(p.y, data.shape[1] - margin)

\* wcs.footprint_contains(coord): inside the NAXIS1 x NAXIS2 pixels of the
\* wcs, whose outer edges are at -0.5 and at NAXIS - 0.5
FootprintContains(wcs, row) ==
    LET p == WorldToPixel(wcs, row)
    IN /\ 2 * p.x.num >= -p.x.den /\ 2 * p.x.num < (2 * wcs.w - 1) * p.x.den
       /\ 2 * p.y.num >= -p.y.den /\ 2 * p.y.num < (2 * wcs.h - 1) * p.y.den

\* Image.get_gaia_catalog(center, gmin, gmax) with raw the rows query_gaia
\* returns.  mask2 is bound only when a galaxy region is set: without one,
\* its use in the last selection raises.
LocationMask(im, cat) == [k \in DOMAIN cat |-> /\ FootprintContains(im.wcs, cat[k])
                                                  /\ ~RegionContains(im.galaxy.val, cat[k])
                                                  /\ EdgeValid(im.wcs, im.data, cat[k])]

MagSelected(cat, gmin, gmax) == ApplyMask(cat, MagMask(cat, gmin, gmax))

GetGaiaCatalogResult(im, raw, gmin, gmax) ==
    IF ~im.galaxy.some
    THEN [im |-> im, outcome |-> "NameError"]
    ELSE The({[im |-> [im EXCEPT !.stars = Some(ApplyMask(cat2, LocationMask(im, cat2)))], outcome |-> "ok"] :
                cat2 \in {MagSelected(cat1, gmin, gmax) : cat1 \in {CloseStarsRemoved(raw)}}})

\* The rows the Gaia service knows in the field: id, position, G magnitude.
Row(id, ra, dec, mag) == [id |-> id, ra |-> ra, dec |-> dec, mag |-> mag]
StarA == Row("A", 40000, 40000, 15)
StarB == Row("B", 40300, 40000, 16)
StarC == Row("C", 20000, 42000, 15)
StarD == Row("D", 46000, 46000, 20)
StarE == Row("E", 34000, 34000, 15)
StarF == Row("F", 15000, 40000, 14)
StarG == Row("G", 65000, 44000, 15)
StarI == Row("I", 20200, 42100, 20)
StarJ == Row("J", 50000, 20000, 15)

\* query_gaia(center, radius): what the service may return.
RawCatalogs == {<<StarF, StarA, StarC, StarD, StarG>>, <<StarA, StarB, StarE, StarC>>, <<StarJ, StarI, StarC, StarA, StarF>>}

MagRanges == {<<12, 18>>}

Regions == {[center |-> <<32000, 32000>>, amax |-> 4000, amin |-> 3000, pa |-> 0]}

----------------------------------------------------------------------------
\* What the sky shows in the 7 arcsec cutout around a star: whether all its
\* pixels are finite, how many are masked, the peaks find_peaks_2d reports
\* above 5% of the maximum and the position of the maximum, as offsets on
\* the sky from the nominal position.
Scene(id) ==
    CASE id = "C" -> [finite |-> TRUE, nmask |-> 5, peaks |-> <<<<100, 0>>>>, argmax |-> <<100, 0>>]
      [] id = "A" -> [finite |-> TRUE, nmask |-> 4, peaks |-> <<<<100, -100>>>>, argmax |-> <<100, -100>>]
      [] id = "J" -> [finite |-> TRUE, nmask |-> 0, peaks |-> <<<<0, 0>>, <<-900, 900>>>>, argmax |-> <<0, 0>>]
      [] id = "E" -> [finite |-> TRUE, nmask |-> 0, peaks |-> <<<<0, 0>>, <<900, 900>>>>, argmax |-> <<0, 0>>]
      [] id = "F" -> [finite |-> TRUE, nmask |-> 0, peaks |-> <<>>, argmax |-> <<0, 200>>]
      [] id = "G" -> [finite |-> FALSE, nmask |-> 0, peaks |-> <<<<0, 0>>>>, argmax |-> <<0, 0>>]
      [] OTHER -> [finite |-> TRUE, nmask |-> 0, peaks |-> <<<<100, -100>>>>, argmax |-> <<100, -100>>]

\* half of the 7 arcsec side of a cutout
CutoutHalf == 35000

\* Cutout2D(data, coord, 7 arcsec, wcs) raises NoOverlapError when the cutout
\* has no pixel in common with the array.
CutoutOverlaps(data, wcs, row) ==
    /\ row.ra - wcs.ra0 + CutoutHalf > 0 /\ row.ra - wcs.ra0 - CutoutHalf < data.shape[2] * wcs.scale
    /\ row.dec - wcs.dec0 + CutoutHalf > 0 /\ row.dec - wcs.dec0 - CutoutHalf < data.shape[1] * wcs.scale

\* zoom.data.mask.sum() >= 5
MaskLimit == 5
TooManyMaskedStrict(nmask) == nmask > MaskLimit
TooManyMasked(nmask) == nmask >= MaskLimit

\* len(peaks) > 1
MultiplePeaksNever(peaks) == FALSE
MultiplePeaks(peaks) == Len(peaks) > 1

\* One pass of the loop of build_startable: "skip", "raise" (the plain arrays
\* read from a FITS file have no mask attribute) or the row of the table.
StartableStep(data, wcs, row) ==
    LET sc == Scene(row.id)
        guess == IF Len(sc.peaks) = 0 THEN sc.argmax ELSE sc.peaks[1]
        newcoord == [id |-> row.id, ra |-> row.ra + guess[1], dec |-> row.dec + guess[2]]
        newpix == WorldToPixel(wcs, newcoord)
    IN IF ~CutoutOverlaps(data, wcs, row) THEN [k |-> "skip"]
       ELSE IF ~sc.finite THEN [k |-> "skip"]
       ELSE IF ~data.masked THEN [k |-> "raise"]
       ELSE IF TooManyMasked(sc.nmask) THEN [k |-> "skip"]
       ELSE IF MultiplePeaks(sc.peaks) THEN [k |-> "skip"]
       ELSE [k |-> "row", row |-> [x |-> newpix.x, y |-> newpix.y, ra |-> newcoord.ra, dec |-> newcoord.dec]]

\* The steps of the loop put together: the rows in input order, unless a
\* step raised.
RECURSIVE RowsOf(_, _)
RowsOf(steps, k) == IF k > Len(steps) THEN <<>> ELSE (IF steps[k].k = "row" THEN <<steps[k].row>> ELSE <<>>) \o RowsOf(steps, k + 1)

StartableLoop(data, wcs, coords) ==
    The({[raised |-> \E k \in DOMAIN steps : steps[k].k = "raise", tbl |-> IF \E k \in DOMAIN steps : steps[k].k = "raise" THEN <<>> ELSE RowsOf(steps, 1)] :
           steps \in {[k \in DOMAIN coords |-> StartableStep(data, wcs, coords[k])]}})

\* Image.build_startable(coords, data, wcs): the loop, then the diagnostic
\* figure, which draws self.galaxy.
BuildStartableDone(im, l) ==
    IF l.raised THEN [outcome |-> "AttributeError", line |-> 307, tbl |-> <<>>]
    ELSE IF ~im.galaxy.some THEN [outcome |-> "AttributeError", line |-> 345, tbl |-> <<>>]
    ELSE [outcome |-> "ok", line |-> 358, tbl |-> l.tbl]

BuildStartableResult(im, coords, data, wcs) == The({BuildStartableDone(im, l) : l \in {StartableLoop(data, wcs, coords)}})

StarH == Row("H", 130000, 40000, 15)

CoordLists == {<<StarA, StarH, StarC>>, <<StarG, StarE, StarF>>}

----------------------------------------------------------------------------
\* Kernels: arrays whose total is np.sum(kernel) = (sum of pix) / den.
RECURSIVE SumPix(_)
SumPix(s) == IF s = <<>> THEN 0 ELSE Head(s).v + SumPix(Tail(s))

AllFinite(a) == \A k \in DOMAIN a.pix : IsNum(a.pix[k])

\* np.abs(1 - psf_flux) < 0.0001 for a kernel of finite values
WithinTol(kern) == Abs(kern.den - SumPix(kern.pix)) * 10000 < kern.den

\* x / 0.0 in numpy: an infinity of the sign of x, NaN for 0 / 0
DivZero(p) == IF p.v > 0 THEN PInf ELSE IF p.v < 0 THEN NInf ELSE NaN

\* new_psf / psf_flux for a kernel of finite values
DivideByTotal(kern, t) ==
    IF t = 0 THEN [kern EXCEPT !.pix = [k \in DOMAIN kern.pix |-> DivZero(kern.pix[k])], !.den = 1]
    ELSE IF t > 0 THEN Reduce([kern EXCEPT !.den = t])
    ELSE Reduce([kern EXCEPT !.pix = [k \in DOMAIN kern.pix |-> Num(-kern.pix[k].v)], !.den = -t])

DivideByFlux(kern) == The({DivideByTotal(b, SumPix(b.pix)) : b \in {kern}})

\* the kernel as built when its total is within the tolerance of 1, divided
\* by its total otherwise
Normalised(kern) == IF WithinTol(kern) THEN kern ELSE DivideByFlux(kern)

\* self.psf and the data of the PrimaryHDU written to <name>.psf.fits
StoredPsf(kern) == Normalised(kern)
WrittenPsf(kern) == Normalised(kern)

\* |sum(psf) - 1.0| < 1e-4 for any kernel: false of a kernel with a
\* non-finite value, whose sum is not a number within any tolerance
UnitFlux(psf) == AllFinite(psf) /\ WithinTol(psf)

Kern(pix) == [shape |-> <<1, Len(pix)>>, pix |-> [k \in DOMAIN pix |-> Num(pix[k])], den |-> 100000, masked |-> FALSE]

\* What the ePSF builder, or create_sdss_psf, may hand back: totals of
\* 1.00005, of 1.0001 and of 0.
Kernels == {Kern(<<60005, 40000>>), Kern(<<60010, 40000>>), Kern(<<50000, -50000>>)}

\* extract_stars(nddata, stars_tbl, size=npix) keeps the stars whose cutout of
\* npix pixels around the nearest pixel lies inside the array.
npix == 35

NearestPixel(q) == (2 * q.num + q.den) \div (2 * q.den)

Extractable(data, pos) ==
    LET half == (npix - 1) \div 2
    IN /\ NearestPixel(pos.x) - half >= 0 /\ NearestPixel(pos.x) + half <= data.shape[2] - 1
       /\ NearestPixel(pos.y) - half >= 0 /\ NearestPixel(pos.y) + half <= data.shape[1] - 1

ExtractStars(data, tbl) == ApplyMask(tbl, [k \in DOMAIN tbl |-> Extractable(data, tbl[k])])

\* fitted_stars.n_good_stars > 0
GoodStarCheckOff(n_good) == TRUE
GoodStarCheck(n_good) == n_good > 0

\* stars_tbl['x', 'y'] and stars_tbl['ra', 'dec']
ColsXY(tbl) == [k \in DOMAIN tbl |-> [x |-> tbl[k].x, y |-> tbl[k].y]]
ColsRaDec(tbl) == [k \in DOMAIN tbl |-> [ra |-> tbl[k].ra, dec |-> tbl[k].dec]]

\* Image.build_psf from line 411 on: extraction, the builder (which accepts
\* no star when allbad, every extracted star otherwise, and builds kern), the
\* good-star check, the normalisation and the write of <name>.psf.fits.
BuildPsfFinish(i, im, dk, stars, allbad, kern, info) ==
    LET n_good == IF allbad THEN 0 ELSE Len(stars)
    IN IF Len(stars) = 0
       THEN [im |-> im, dk |-> dk, outcome |-> "IndexError", line |-> 427, n_good |-> None, built |-> None, info |-> info]
       ELSE IF ~GoodStarCheck(n_good)
       THEN [im |-> im, dk |-> dk, outcome |-> "SystemExit", line |-> 441, n_good |-> Some(n_good), built |-> None, info |-> info]
       ELSE [im |-> [im EXCEPT !.psf = Some(StoredPsf(kern))],
             dk |-> [dk EXCEPT !.psf[i] = Some([data |-> WrittenPsf(kern), PSFSCALE |-> im.psfscale.val])],
             outcome |-> "ok", line |-> 456, n_good |-> Some(n_good), built |-> Some(kern), info |-> info]

BuildPsfTail(i, im, dk, data, wcs, tbl, allbad, kern) ==
    The({BuildPsfFinish(i, a[1], dk, ExtractStars(a[2], a[3]), allbad, kern, [tbl |-> a[3], cutshape |-> a[2].shape, cutwcs |-> wcs]) : a \in {<<im, data, tbl>>}})

NoInfo == [tbl |-> <<>>, cutshape |-> <<0, 0>>, cutwcs |-> None]

\* Lines 396-409 of build_psf: the star table from the curated catalog g and
\* build_startable, or from the override file and self.wcs.
BuildPsfFromCatalog(i, g, dk, cut, bs, allbad, kern) ==
    IF bs.outcome # "ok"
    THEN [im |-> g.im, dk |-> dk, outcome |-> bs.outcome, line |-> bs.line, n_good |-> None, built |-> None, info |-> NoInfo]
    ELSE BuildPsfTail(i, g.im, [dk EXCEPT !.stars[i] = Some(ColsRaDec(bs.tbl))], cut.data, cut.wcs, ColsXY(bs.tbl), allbad, kern)

BuildPsfCurated(i, g, dk, cut, allbad, kern) ==
    IF g.outcome # "ok"
    THEN [im |-> g.im, dk |-> dk, outcome |-> g.outcome, line |-> 263, n_good |-> None, built |-> None, info |-> NoInfo]
    ELSE The({BuildPsfFromCatalog(i, g, dk, cut, bs, allbad, kern) : bs \in {BuildStartableResult(g.im, g.im.stars.val, cut.data, cut.wcs)}})

FileStarTable(wcs, rows) == [k \in DOMAIN rows |-> WorldToPixel(wcs, rows[k])]

BuildPsfStars(i, im, dk, cut, stars_file, raw, gmin, gmax, allbad, kern) ==
    IF stars_file.some
    THEN BuildPsfTail(i, [im EXCEPT !.stars = stars_file], dk, cut.data, cut.wcs, FileStarTable(im.wcs, stars_file.val), allbad, kern)
    ELSE The({BuildPsfCurated(i, g, dk, cut, allbad, kern) : g \in {GetGaiaCatalogResult(im, raw, gmin, gmax)}})

\* Image.build_psf(center, gmin, gmax, stars_file, pixscale) of image i:
\* lines 387-394 choose the array the cutouts come from and set psfscale.
BuildPsfCutoutSource(i, im, pixscale) == IF pixscale.some THEN ResampleResult(i, im, None, pixscale, FALSE).ret.val ELSE [data |-> im.data, wcs |-> im.wcs, header |-> im.header]

BuildPsfScale(im, pixscale) == IF pixscale.some THEN pixscale.val ELSE Around3(PixelScale(im.wcs))

BuildPsfResult(i, im, dk, stars_file, pixscale, raw, gmin, gmax, allbad, kern) ==
    The({BuildPsfStars(i, a[1], dk, a[2], stars_file, raw, gmin, gmax, allbad, kern) :
           a \in {<<[im EXCEPT !.psfscale = Some(BuildPsfScale(im, pixscale))], BuildPsfCutoutSource(i, im, pixscale)>>}})

\* Image.recover_SDSS_PSF(pixscale) with kern what create_sdss_psf returns.
RecoverSdssPsfResult(i, im, dk, pixscale, kern) ==
    [im |-> [im EXCEPT !.psfscale = Some(BuildPsfScale(im, pixscale)), !.psf = Some(StoredPsf(kern))],
     dk |-> [dk EXCEPT !.psf[i] = Some([data |-> WrittenPsf(kern), PSFSCALE |-> BuildPsfScale(im, pixscale)])],
     outcome |-> "ok"]

\* Image.open_psf(filename) with the file another build has written, if any.
OpenPsfResult(im, file) ==
    IF ~file.some THEN [im |-> im, outcome |-> "FileNotFoundError"]
    ELSE [im |-> [im EXCEPT !.psf = Some(file.val.data), !.psfscale = Some(file.val.PSFSCALE)], outcome |-> "ok"]

\* The star-position override file: two columns, ra and dec.
StarFiles == {<<[ra |-> 40000, dec |-> 40000], [ra |-> 15000, dec |-> 40000]>>}

----------------------------------------------------------------------------
\* gamma * data + offset, elementwise; NaN stays NaN.
AffinePix(a, gamma, offset) == [a EXCEPT !.pix = [k \in DOMAIN a.pix |-> IF IsNum(a.pix[k]) THEN Num(gamma * a.pix[k].v + offset * a.den) ELSE a.pix[k]]]
Affine(a, gamma, offset) == The({Reduce(AffinePix(b, gamma, offset)) : b \in {a}})

\* MUSEImage.check_flux_calibration(reference) from line 288 on, with
\* (gamma, offset) the output.beta of the ODR fit.
NoCorrection(data, gamma, offset) == data
FluxCorrected(data, gamma, offset) == Affine(data, gamma, offset)

\* (self.data == 0) | (~np.isfinite(self.data))
ZeroMask(data) == [k \in DOMAIN data.pix |-> ~IsNum(data.pix[k]) \/ data.pix[k].v = 0]

\* data[np.isnan(data)] = 0
NanToZero(a) == [a EXCEPT !.pix = [k \in DOMAIN a.pix |-> IF IsNaNPix(a.pix[k]) THEN Num(0) ELSE a.pix[k]]]

\* scipy.ndimage.zoom(a, zoom=n): n times the pixels along each axis, every
\* sample repeated n times.
Zoom(a, n) == [a EXCEPT !.shape = <<a.shape[1] * n, a.shape[2] * n>>, !.pix = [k \in 1..(Len(a.pix) * n) |-> a.pix[((k - 1) \div n) + 1]]]

\* scipy.ndimage.rotate(psf, angle): a quarter turn or half turn reverses
\* the samples of the one-row kernels used here.
Rotate(psf, angle) == [psf EXCEPT !.pix = [k \in DOMAIN psf.pix |-> psf.pix[Len(psf.pix) + 1 - k]]]

\* MUSEImage.get_rot(): the angle of the y axis of self.wcs
GetRot(wcs) == wcs.rot

\* the default of kwargs.pop('edge', ...)
DefaultEdge == 50

\* edge = kwargs.pop('edge', 50)
EdgeTen(kw) == IF kw.edge.some THEN kw.edge.val ELSE 10
EdgeOf(kw) == IF kw.edge.some THEN kw.edge.val ELSE DefaultEdge

\* alpha, in tenths, from the template id of the main header
AlphaOf(tpl) == IF tpl = "MUSE_wfm-ao_obs_genericoffsetLGS" THEN 23 ELSE 28

MainHeaderTpl == "MUSE_wfm-noao_obs_genericoffset"

\* The three assertions of measure_psf, in order.
ScaleMatchesUnrounded(psfscale, wcs) == psfscale = PixelScale(wcs)
ScaleMatches(psfscale, wcs) == psfscale = Around3(PixelScale(wcs))

MeasurePrecondition(im, reference) ==
    IF im.units # reference.units THEN 144
    ELSE IF ~reference.psf.some THEN 145
    ELSE IF ~ScaleMatches(reference.psfscale.val, im.wcs) THEN 146
    ELSE 0

\* reference.resample(header=self.header) of measure_psf
MeasureResample(reference, header) == ResampleHeader(reference, header, TRUE).im

\* Lines 202-215 of measure_psf: what the oversampling makes of the target
\* (self.data, zeroed in place through the alias data), of the array handed
\* on, of the reference array and of the psf.
Oversampled(im1, ref1, psf0, mu, oversample) ==
    IF oversample.some /\ oversample.val > 1
    THEN The({[im |-> [im1 EXCEPT !.data = z], data |-> ScaleArr(Zoom(z, oversample.val), 1, oversample.val * oversample.val),
               ref_data |-> ScaleArr(Zoom(ref1.data, oversample.val), 1, oversample.val * oversample.val),
               psf |-> DivideByFlux(Zoom(psf0, oversample.val)), scale |-> [num |-> mu.scale, den |-> oversample.val], oversample |-> oversample.val] :
                z \in {NanToZero(im1.data)}})
    ELSE [im |-> im1, data |-> im1.data, ref_data |-> ref1.data, psf |-> psf0, scale |-> [num |-> mu.scale, den |-> 1], oversample |-> 1]

\* Lines 168-200: the keyword defaults, the star mask (from the regions
\* file when there is one, from locate_stars otherwise) and the rotation.
StarPos(dk, kw, located) == IF kw.mask_stars THEN (IF dk.reg.some THEN dk.reg ELSE located) ELSE None

MeasureRun(im1, ref1, mu, dk, o, zeromask, kw, located, fit) ==
    LET star_pos == StarPos(dk, kw, located)
        starmask == IF kw.mask_stars /\ star_pos.some THEN "stars" ELSE "empty"
        args == [data |-> o.data, ref_data |-> o.ref_data, psf |-> o.psf, star_pos |-> star_pos, starmask |-> starmask, zeromask |-> zeromask,
                 oversample |-> o.oversample, alpha |-> AlphaOf(MainHeaderTpl), fwhm0 |-> 8, scale |-> o.scale,
                 edge |-> EdgeOf(kw), dx0 |-> 0, dy0 |-> 0]
    IN [im |-> o.im, reference |-> ref1,
        mu |-> [mu EXCEPT !.res = Some(fit), !.best_fit = Some(fit[1]), !.star_pos = star_pos, !.starmask = Some(starmask)],
        dk |-> IF kw.mask_stars /\ ~dk.reg.some /\ star_pos.some THEN [dk EXCEPT !.reg = star_pos] ELSE dk,
        outcome |-> "ok", line |-> 227, opt |-> Some(args), ncalib |-> 1]

RotatedPsf(im, reference) == IF GetRot(im.wcs) # 0 THEN Rotate(reference.psf.val, GetRot(im.wcs)) ELSE reference.psf.val

MeasureBody(im, ref1, mu, dk, oversample, kw, gamma, offset, located, fit) ==
    The({MeasureRun(a[1], ref1, mu, dk, o, ZeroMask(im.data), kw, located, fit) :
           <<a, o>> \in {<<b, Oversampled(b[1], ref1, b[2], mu, oversample)>> : b \in {<<[im EXCEPT !.data = FluxCorrected(im.data, gamma, offset)], RotatedPsf(im, ref1)>>}}})

\* MUSEImage.measure_psf(reference, oversample, **kw): the assertions, the
\* resampling of the reference, the flux correction, and the rest.
MeasurePsfResult(im, reference, mu, dk, oversample, kw, gamma, offset, located, fit) ==
    IF MeasurePrecondition(im, reference) # 0
    THEN [im |-> im, reference |-> reference, mu |-> mu, dk |-> dk, outcome |-> "AssertionError", line |-> MeasurePrecondition(im, reference), opt |-> None, ncalib |-> 0]
    ELSE The({MeasureBody(im, ref1, mu, dk, oversample, kw, gamma, offset, located, fit) : ref1 \in {MeasureResample(reference, im.header)}})

\* MUSEImage.check_flux_calibration(reference, resample) called on its own:
\* with resample the reference is an Image, resampled in place first.
CheckFluxCalibrationResult(im, reference, resample, gamma, offset) ==
    [im |-> [im EXCEPT !.data = FluxCorrected(im.data, gamma, offset)], reference |-> IF resample THEN ResampleHeader(reference, im.header, TRUE).im ELSE reference]

\* output.beta of the ODR fit, what locate_stars may find, what the
\* optimizer may return (res[0] the best fit), the caller's keywords.
Betas == {<<1, 0>>, <<2, 3>>}
Located == {None, Some(<<[x |-> 20, y |-> 20]>>)}
Fits == {<<[fwhm |-> 7], "trace">>}
Oversamples == {None, Some(2)}
Keywords == {[edge |-> None, mask_stars |-> TRUE], [edge |-> Some(20), mask_stars |-> FALSE]}

----------------------------------------------------------------------------
\* MUSEImage.__init__: self.scale from the wcs; no fit result stored yet.
NewMuse == [scale |-> PixelScale(WCS(FileOf("tgt").header)), res |-> None, best_fit |-> None, star_pos |-> None, starmask |-> None]

NewDisk == [psf |-> [i \in Imgs |-> None], stars |-> [i \in Imgs |-> None], reg |-> None]

Init ==
    /\ \E u \in UnitSet : img = [i \in Imgs |-> NewImage(i, IF i = "tgt" THEN "flux" ELSE u)]
    /\ muse = NewMuse
    /\ disk = NewDisk
    /\ call = [op |-> "init", img |-> "tgt", outcome |-> "ok"]
    /\ pre = [img |-> img, muse |-> muse, disk |-> disk]
    /\ ret = None
    /\ opt = None
    /\ ncalls = 0

\* Every call snapshots the state it starts from.
Begin ==
    /\ ncalls < MaxCalls
    /\ ncalls' = ncalls + 1
    /\ pre' = [img |-> img, muse |-> muse, disk |-> disk]

PixscaleArgs == {None, Some(2000), Some(1600)}
ResamplePixscales == {None, Some(2000)}

\* The image whose PSF is built and the image whose PSF is measured.
Builders == {"ref"}

Resample(i, header, pixscale, inplace) ==
    /\ Begin
    /\ \E r \in {ResampleResult(i, img[i], header, pixscale, inplace)} :
          /\ img' = [img EXCEPT ![i] = r.im]
          /\ ret' = r.ret
          /\ call' = [op |-> "resample", img |-> i, outcome |-> r.outcome, header |-> header, pixscale |-> pixscale, inplace |-> inplace]
    /\ UNCHANGED <<muse, disk, opt>>

MaskGalaxy(i, reg) ==
    /\ Begin
    /\ img' = [img EXCEPT ![i] = MaskGalaxyResult(img[i], reg.center, reg.amax, reg.amin, reg.pa)]
    /\ ret' = None
    /\ call' = [op |-> "mask_galaxy", img |-> i, outcome |-> "ok"]
    /\ UNCHANGED <<muse, disk, opt>>

GetGaiaCatalog(i, raw, gmin, gmax) ==
    /\ Begin
    /\ \E r \in {GetGaiaCatalogResult(img[i], raw, gmin, gmax)} :
          /\ img' = [img EXCEPT ![i] = r.im]
          /\ call' = [op |-> "get_gaia_catalog", img |-> i, outcome |-> r.outcome, raw |-> raw, gmin |-> gmin, gmax |-> gmax]
    /\ ret' = None
    /\ UNCHANGED <<muse, disk, opt>>

BuildStartable(i, coords) ==
    /\ Begin
    /\ \E r \in {BuildStartableResult(img[i], coords, img[i].data, img[i].wcs)} :
          /\ ret' = IF r.outcome = "ok" THEN Some(r.tbl) ELSE None
          /\ call' = [op |-> "build_startable", img |-> i, outcome |-> r.outcome, line |-> r.line, coords |-> coords]
    /\ UNCHANGED <<img, muse, disk, opt>>

\* What the builder may return in a call that reaches it: no good star, or
\* every extracted star good and one of the kernels.
AnyKernel == CHOOSE k \in Kernels : TRUE
BuilderOutcomes(reached) == IF reached THEN {[allbad |-> TRUE, kern |-> AnyKernel]} \cup {[allbad |-> FALSE, kern |-> k] : k \in Kernels} ELSE {[allbad |-> TRUE, kern |-> AnyKernel]}

BuildPsf(i, stars_file, pixscale, raw, gmin, gmax) ==
    /\ Begin
    /\ \E b \in BuilderOutcomes(BuildPsfResult(i, img[i], disk, stars_file, pixscale, raw, gmin, gmax, TRUE, AnyKernel).outcome = "SystemExit") :
         \E r \in {BuildPsfResult(i, img[i], disk, stars_file, pixscale, raw, gmin, gmax, b.allbad, b.kern)} :
            /\ img' = [img EXCEPT ![i] = r.im]
            /\ disk' = r.dk
            /\ call' = [op |-> "build_psf", img |-> i, outcome |-> r.outcome, line |-> r.line, stars_file |-> stars_file, pixscale |-> pixscale, gmin |-> gmin, gmax |-> gmax, n_good |-> r.n_good, built |-> r.built, info |-> r.info]
    /\ ret' = None
    /\ UNCHANGED <<muse, opt>>

RecoverSdssPsf(i, pixscale, kern) ==
    /\ Begin
    /\ \E r \in {RecoverSdssPsfResult(i, img[i], disk, pixscale, kern)} :
          /\ img' = [img EXCEPT ![i] = r.im]
          /\ disk' = r.dk
          /\ call' = [op |-> "recover_SDSS_PSF", img |-> i, outcome |-> r.outcome, pixscale |-> pixscale, built |-> Some(kern)]
    /\ ret' = None
    /\ UNCHANGED <<muse, opt>>

OpenPsf(i, j) ==
    /\ Begin
    /\ \E r \in {OpenPsfResult(img[i], disk.psf[j])} :
          /\ img' = [img EXCEPT ![i] = r.im]
          /\ call' = [op |-> "open_psf", img |-> i, outcome |-> r.outcome, file |-> j]
    /\ ret' = None
    /\ UNCHANGED <<muse, disk, opt>>

\* tgt.measure_psf(reference = ref, oversample, **kw).  A call that fails an
\* assertion uses none of the ODR, locate_stars and optimizer results.
MeasureInputs(passes) == IF passes THEN Oversamples \X Keywords \X Betas \X Located ELSE {<<None, CHOOSE k \in Keywords : TRUE, CHOOSE b \in Betas : TRUE, None>>}

MeasurePsf(fit) ==
    /\ Begin
    /\ \E a \in MeasureInputs(MeasurePrecondition(img["tgt"], img["ref"]) = 0) :
         \E r \in {MeasurePsfResult(img["tgt"], img["ref"], muse, disk, a[1], a[2], a[3][1], a[3][2], a[4], fit)} :
            /\ a[2].mask_stars \/ a[4] = None
            /\ img' = [img EXCEPT !["tgt"] = r.im, !["ref"] = r.reference]
            /\ muse' = r.mu
            /\ disk' = r.dk
            /\ opt' = r.opt
            /\ call' = [op |-> "measure_psf", img |-> "tgt", outcome |-> r.outcome, line |-> r.line, ncalib |-> r.ncalib, oversample |-> a[1], kw |-> a[2], gamma |-> a[3][1], offset |-> a[3][2]]
    /\ ret' = None

CheckFluxCalibration(resample, gamma, offset) ==
    /\ Begin
    /\ \E r \in {CheckFluxCalibrationResult(img["tgt"], img["ref"], resample, gamma, offset)} :
          /\ img' = [img EXCEPT !["tgt"] = r.im, !["ref"] = r.reference]
          /\ call' = [op |-> "check_flux_calibration", img |-> "tgt", outcome |-> "ok", resample |-> resample, gamma |-> gamma, offset |-> offset]
    /\ ret' = None
    /\ UNCHANGED <<muse, disk, opt>>

Next ==
    \/ \E i \in Imgs, hs \in BOOLEAN, p \in ResamplePixscales, inplace \in BOOLEAN : Resample(i, IF hs THEN Some(img[Other(i)].header) ELSE None, p, inplace)
    \/ \E i \in Builders, reg \in Regions : MaskGalaxy(i, reg)
    \/ \E i \in Builders, raw \in RawCatalogs, m \in MagRanges : GetGaiaCatalog(i, raw, m[1], m[2])
    \/ \E i \in Builders, coords \in CoordLists : BuildStartable(i, coords)
    \/ \E i \in Builders, sf \in {None} \cup {Some(f) : f \in StarFiles}, p \in PixscaleArgs, m \in MagRanges : \E raw \in IF sf.some THEN {<<>>} ELSE RawCatalogs : BuildPsf(i, sf, p, raw, m[1], m[2])
    \/ \E i \in Builders, p \in ResamplePixscales, kern \in Kernels : RecoverSdssPsf(i, p, kern)
    \/ \E i \in Builders : OpenPsf(i, i)
    \/ \E fit \in Fits : MeasurePsf(fit)
    \/ \E resample \in BOOLEAN, b \in Betas : CheckFluxCalibration(resample, b[1], b[2])

Spec == Init /\ [][Next]_vars

----------------------------------------------------------------------------
\* Shorthands for the last call.
Self == img[call.img]
SelfBefore == pre.img[call.img]

\* The last call curated a catalog into stars: get_gaia_catalog returned, or
\* build_psf without an override file got past its get_gaia_catalog.
Curated ==
    \/ call.op = "get_gaia_catalog" /\ call.outcome = "ok"
    \/ call.op = "build_psf" /\ ~call.stars_file.some /\ call.outcome # "NameError"

\* x and y of a catalog row in the image's own grid lie m pixels inside the
\* edges of its data array.
InsideMargin(im, row, m) ==
    /\ row.ra - im.wcs.ra0 >= m * im.wcs.scale /\ row.ra - im.wcs.ra0 < (im.data.shape[2] - m) * im.wcs.scale
    /\ row.dec - im.wcs.dec0 >= m * im.wcs.scale /\ row.dec - im.wcs.dec0 < (im.data.shape[1] - m) * im.wcs.scale

\* C1: measure_psf fails with an AssertionError exactly when, in the state
\* the call started from, the units of target and reference differ, or the
\* reference has no psf, or the reference's psfscale is not the target's
\* pixel scale rounded to 3 decimals; a failed call leaves both images, the
\* stored fit results and the files as they were and hands nothing to the
\* optimizer.
C1_PreconditionsBeforeWork ==
    call.op = "measure_psf" =>
        /\ (call.outcome = "AssertionError") <=>
               \/ pre.img["tgt"].units # pre.img["ref"].units
               \/ ~pre.img["ref"].psf.some
               \/ pre.img["ref"].psfscale.val # Around3(PixelScale(pre.img["tgt"].wcs))
        /\ call.outcome = "AssertionError" => img = pre.img /\ muse = pre.muse /\ disk = pre.disk /\ ~opt.some

\* A measure_psf call rejected by the third assertion, on a reference that
\* has a psf in the target's units.
C1_Witness ==
    /\ call.op = "measure_psf" /\ call.outcome = "AssertionError" /\ call.line = 146
    /\ pre.img["ref"].psf.some /\ pre.img["ref"].units = pre.img["tgt"].units

\* C2: resample raises ValueError exactly when header and pixscale are both
\* absent or both given, and then the image is as before the call and
\* nothing is returned; with exactly one of them it returns normally.
C2_ResampleArguments ==
    call.op = "resample" =>
        /\ (call.outcome = "ValueError") <=> (call.header.some <=> call.pixscale.some)
        /\ call.outcome = "ValueError" => img = pre.img /\ ~ret.some
        /\ call.outcome # "ValueError" => call.outcome = "ok"

\* A resample call given both a header and a pixscale, rejected.
C2_Witness == call.op = "resample" /\ call.header.some /\ call.pixscale.some /\ call.outcome = "ValueError"

\* C3: on an image without galaxy region, get_gaia_catalog and
\* build_startable end without error, and every raw entry that passes the
\* proximity, magnitude, edge-margin and footprint tests is in stars.
C3_NoGalaxyCurationCompletes ==
    /\ (call.op = "get_gaia_catalog" /\ ~SelfBefore.galaxy.some) =>
           /\ call.outcome = "ok"
           /\ Self.stars.some
           /\ \A k \in DOMAIN call.raw :
                  (/\ remove_close_stars(call.raw)[k]
                   /\ call.raw[k].mag >= call.gmin /\ call.raw[k].mag <= call.gmax
                   /\ InsideMargin(SelfBefore, call.raw[k], margin)
                   /\ FootprintContains(SelfBefore.wcs, call.raw[k]))
                  => \E j \in DOMAIN Self.stars.val : Self.stars.val[j] = call.raw[k]
    /\ (call.op = "build_startable" /\ ~SelfBefore.galaxy.some) => call.outcome = "ok"

\* C4: a build_psf call whose builder accepted no star ends in SystemExit,
\* with the psf attribute and the psf files as before the call.
C4_NoGoodStarIsFatal ==
    (call.op = "build_psf" /\ call.n_good = Some(0)) =>
        /\ call.outcome = "SystemExit"
        /\ Self.psf = SelfBefore.psf
        /\ disk.psf = pre.disk.psf

\* A build_psf call with no good star on an image that had a psf and a psf
\* file already.
C4_Witness ==
    /\ call.op = "build_psf" /\ call.n_good = Some(0)
    /\ SelfBefore.psf.some /\ pre.disk.psf[call.img].some

\* C5: after build_psf or recover_SDSS_PSF returns, the stored psf is the
\* written one, its total is within 1e-4 of 1, and it is the built kernel
\* when that is within 1e-4 of 1, the built kernel over its total otherwise.
C5_StoredPsfHasUnitFlux ==
    (call.op \in {"build_psf", "recover_SDSS_PSF"} /\ call.outcome = "ok") =>
        /\ Self.psf.some /\ disk.psf[call.img].some
        /\ Self.psf.val = disk.psf[call.img].val.data
        /\ UnitFlux(Self.psf.val)
        /\ Self.psf.val = IF WithinTol(call.built.val) THEN call.built.val ELSE DivideByFlux(call.built.val)

\* C6 as stated: whenever measure_psf reaches the optimizer, the flux
\* calibration has run once in the call and the optimizer's target data are
\* gamma * target + offset of the target data at the start of the call.
C6_OptimizerGetsCorrectedTarget ==
    (call.op = "measure_psf" /\ opt.some) =>
        /\ call.ncalib = 1
        /\ opt.val.data = Affine(pre.img["tgt"].data, call.gamma, call.offset)

\* C6 amended: whenever measure_psf reaches the optimizer, the flux
\* calibration has run once in the call; the optimizer's target data are
\* gamma * target + offset of the data at the start of the call when
\* oversample is None or at most 1, and that corrected array with its NaN
\* set to 0, upsampled by oversample and divided by oversample^2 otherwise.
C6_OptimizerGetsCorrectedOrOversampled ==
    (call.op = "measure_psf" /\ opt.some) =>
        /\ call.ncalib = 1
        /\ opt.val.data = IF call.oversample.some /\ call.oversample.val > 1
                          THEN ScaleArr(Zoom(NanToZero(Affine(pre.img["tgt"].data, call.gamma, call.offset)), call.oversample.val), 1, call.oversample.val * call.oversample.val)
                          ELSE Affine(pre.img["tgt"].data, call.gamma, call.offset)

\* A measure_psf call without oversampling that reached the optimizer after
\* a correction that changes the data.
C6_Witness ==
    /\ call.op = "measure_psf" /\ opt.some /\ ~call.oversample.some
    /\ call.gamma = 2 /\ opt.val.data # pre.img["tgt"].data

\* C7: after measure_psf returns, the reference's data, wcs, header and psf
\* are those it had before the call.
C7_ReferenceOnlyBorrowed ==
    (call.op = "measure_psf" /\ call.outcome = "ok") =>
        /\ img["ref"].data = pre.img["ref"].data
        /\ img["ref"].wcs = pre.img["ref"].wcs
        /\ img["ref"].header = pre.img["ref"].header
        /\ img["ref"].psf = pre.img["ref"].psf

\* C8: after resample returns, with inplace the data, wcs and header are the
\* resampled ones and nothing is returned; without inplace the three are
\* those before the call and the resampled ones are returned, in the header
\* mode and in the pixscale mode alike.
C8_ResampleKeepsGridConsistent ==
    (call.op = "resample" /\ call.outcome = "ok") =>
        IF call.inplace
        THEN /\ ~ret.some
             /\ Self.wcs = WCS(Self.header)
             /\ Self.data.shape = <<Self.wcs.h, Self.wcs.w>>
             /\ call.header.some => Self.header = call.header.val
        ELSE /\ ret.some
             /\ Self.data = SelfBefore.data /\ Self.wcs = SelfBefore.wcs /\ Self.header = SelfBefore.header
             /\ ret.val.wcs = WCS(ret.val.header)
             /\ ret.val.data.shape = <<ret.val.wcs.h, ret.val.wcs.w>>

\* The edge margins a caller may want.
CallerMargins == {10, 15, 20}

\* C9 as stated: whichever margin the caller configures, every entry of a
\* curated catalog lies that many pixels inside the edges of the image.
C9_CallerMarginHonoured ==
    Curated => \A m \in CallerMargins : \A k \in DOMAIN Self.stars.val : InsideMargin(Self, Self.stars.val[k], m)

\* C9 amended: every entry of a curated catalog has pixel coordinates, in
\* the image's wcs, with 15 <= x < width - 15 and 15 <= y < height - 15,
\* width and height those of the image's data array; the margin of 15
\* pixels is fixed by get_gaia_catalog.
C9_FixedMarginHonoured ==
    Curated => \A k \in DOMAIN Self.stars.val : InsideMargin(Self, Self.stars.val[k], 15)

\* A curated catalog with an entry exactly 15 pixels from the left edge.
C9_Witness ==
    /\ Curated
    /\ \E k \in DOMAIN Self.stars.val : Self.stars.val[k].ra - Self.wcs.ra0 = 15 * Self.wcs.scale

\* C10: any two distinct entries of a curated catalog are at least the
\* minimum separation apart.
C10_CuratedPairsSeparated ==
    Curated => \A j, k \in DOMAIN Self.stars.val :
                   j # k => (Self.stars.val[j].ra - Self.stars.val[k].ra) * (Self.stars.val[j].ra - Self.stars.val[k].ra)
                            + (Self.stars.val[j].dec - Self.stars.val[k].dec) * (Self.stars.val[j].dec - Self.stars.val[k].dec) >= MinSep * MinSep

\* A catalog curated by get_gaia_catalog from raw rows that held a pair
\* nearer than the minimum separation, with an entry left.
C10_Witness ==
    /\ call.op = "get_gaia_catalog" /\ call.outcome = "ok"
    /\ \E j, k \in DOMAIN call.raw : j # k /\ TooClose(call.raw[j], call.raw[k])
    /\ Len(Self.stars.val) >= 1

\* C11: get_gaia_catalog run again on the same image with the same
\* magnitude range, on the catalog a curation has just stored, stores that
\* same catalog: the same entries in the same order.
C11_CurationIdempotent ==
    Curated => GetGaiaCatalogResult(Self, Self.stars.val, call.gmin, call.gmax) = [im |-> Self, outcome |-> "ok"]

\* A curation that removed entries of the raw rows for being too close, for
\* their magnitude and for their place, and kept at least two.
C11_Witness ==
    /\ call.op = "get_gaia_catalog" /\ call.outcome = "ok"
    /\ Len(Self.stars.val) >= 2 /\ Len(Self.stars.val) < Len(call.raw)
\* A star build_startable is to skip: its cutout misses the array, holds a
\* non-finite pixel, has too many masked pixels or shows several peaks.
Rejected(data, wcs, row) ==
    \/ ~CutoutOverlaps(data, wcs, row)
    \/ ~Scene(row.id).finite
    \/ TooManyMasked(Scene(row.id).nmask)
    \/ Len(Scene(row.id).peaks) > 1

\* C12: build_startable on an image with a galaxy region returns without
\* raising, whatever stars of its input are to be skipped, and its table
\* has one row for each of the other stars.
C12_BadStarsSkippedOthersKept ==
    (call.op = "build_startable" /\ SelfBefore.galaxy.some) =>
        /\ call.outcome = "ok"
        /\ ret.some
        /\ Len(ret.val) = Cardinality({k \in DOMAIN call.coords : ~Rejected(Self.data, Self.wcs, call.coords[k])})
\* The last call got a star table from build_startable: its rows, the
\* array and wcs the cutouts were taken from, and the stars it was given.
TableCall ==
    \/ call.op = "build_startable" /\ call.outcome = "ok"
    \/ call.op = "build_psf" /\ ~call.stars_file.some /\ call.outcome \in {"ok", "SystemExit", "IndexError"}
TableRows == IF call.op = "build_startable" THEN ColsXY(ret.val) ELSE call.info.tbl
TableWcs == IF call.op = "build_startable" THEN Self.wcs ELSE call.info.cutwcs
TableData == IF call.op = "build_startable" THEN Self.data ELSE [shape |-> call.info.cutshape]
TableCoords == IF call.op = "build_startable" THEN call.coords ELSE Self.stars.val

\* The table has a row at the pixel of the sky position (ra, dec).
HasRowAt(ra, dec) == \E j \in DOMAIN TableRows : TableRows[j] = WorldToPixel(TableWcs, [ra |-> ra, dec |-> dec])

\* The table has a row for the star: at its peak, or at the maximum of its
\* cutout when there is no peak.
HasRow(row) ==
    LET sc == Scene(row.id)
        at == IF Len(sc.peaks) = 0 THEN sc.argmax ELSE sc.peaks[1]
    IN HasRowAt(row.ra + at[1], row.dec + at[2])

\* Nothing but its masked pixels can have the star skipped.
OtherwiseAcceptable(row) == CutoutOverlaps(TableData, TableWcs, row) /\ Scene(row.id).finite /\ Len(Scene(row.id).peaks) <= 1

\* C13 as stated: a star otherwise acceptable is skipped exactly when more
\* than 5 pixels of its cutout are masked: with 5 it has a row.
C13_RejectedAboveFive ==
    TableCall => \A k \in DOMAIN TableCoords : OtherwiseAcceptable(TableCoords[k]) => (HasRow(TableCoords[k]) <=> Scene(TableCoords[k].id).nmask <= 5)

\* C13 amended: in every star table build_startable returns, a star
\* otherwise acceptable is skipped exactly when 5 or more pixels of its
\* cutout are masked: with 4 it has a row, with 5 it has none.
C13_RejectedFromFive ==
    TableCall => \A k \in DOMAIN TableCoords : OtherwiseAcceptable(TableCoords[k]) => (HasRow(TableCoords[k]) <=> Scene(TableCoords[k].id).nmask < 5)

\* A star table built from a star with 4 masked pixels, which has a row,
\* and a star with 5, which has none.
C13_Witness ==
    /\ TableCall
    /\ \E j, k \in DOMAIN TableCoords :
           /\ OtherwiseAcceptable(TableCoords[j]) /\ Scene(TableCoords[j].id).nmask = 4 /\ HasRow(TableCoords[j])
           /\ OtherwiseAcceptable(TableCoords[k]) /\ Scene(TableCoords[k].id).nmask = 5 /\ ~HasRow(TableCoords[k])
\* C14 as stated: the optimizer gets the caller's edge, and an edge of 10
\* pixels when the caller gives none.
C14_DefaultEdgeTen ==
    (call.op = "measure_psf" /\ opt.some) => opt.val.edge = IF call.kw.edge.some THEN call.kw.edge.val ELSE 10

\* C14 amended: the optimizer gets the caller's edge unchanged, and an edge
\* of 50 pixels when the caller of measure_psf gives none.
C14_DefaultEdgeFifty ==
    (call.op = "measure_psf" /\ opt.some) => opt.val.edge = IF call.kw.edge.some THEN call.kw.edge.val ELSE 50

\* A measure_psf call without edge option that reached the optimizer.
C14_Witness == call.op = "measure_psf" /\ opt.some /\ ~call.kw.edge.some /\ opt.val.edge = 50
\* C15: after build_psf returns, psfscale and the PSFSCALE tag of the file
\* are the pixel scale of the array the stars were cut from: the requested
\* pixscale when one is given, the native scale rounded to 3 decimals
\* otherwise; after recover_SDSS_PSF the two are the requested pixscale, or
\* the rounded native scale.
C15_PsfScaleIsArrayScale ==
    /\ (call.op = "build_psf" /\ call.outcome = "ok") =>
           /\ disk.psf[call.img].val.PSFSCALE = Self.psfscale.val
           /\ IF call.pixscale.some
              THEN Self.psfscale.val = call.pixscale.val /\ PixelScale(call.info.cutwcs) = call.pixscale.val
              ELSE Self.psfscale.val = Around3(PixelScale(call.info.cutwcs))
    /\ (call.op = "recover_SDSS_PSF" /\ call.outcome = "ok") =>
           /\ disk.psf[call.img].val.PSFSCALE = Self.psfscale.val
           /\ Self.psfscale.val = IF call.pixscale.some THEN call.pixscale.val ELSE Around3(PixelScale(Self.wcs))
\* C16: after measure_psf returns, the target's stored data are gamma *
\* data + offset of the data before the call, of the same shape and with
\* their NaN pixels still NaN, whatever oversample is; its wcs and header
\* are untouched.
C16_TargetOnlyFluxCorrected ==
    (call.op = "measure_psf" /\ call.outcome = "ok") =>
        /\ img["tgt"].data = Affine(pre.img["tgt"].data, call.gamma, call.offset)
        /\ img["tgt"].data.shape = pre.img["tgt"].data.shape
        /\ \A k \in DOMAIN pre.img["tgt"].data.pix : IsNaNPix(pre.img["tgt"].data.pix[k]) => IsNaNPix(img["tgt"].data.pix[k])
        /\ img["tgt"].wcs = pre.img["tgt"].wcs /\ img["tgt"].header = pre.img["tgt"].header

\* Two fractions of the same value.
FracEq(p, q) == p.num * q.den = q.num * p.den

\* C17: in every build_psf call that comes to extract_stars, each row of
\* the star table is the pixel, in the wcs of the array the cutouts are
\* extracted from, of the sky position of its star: the position read from
\* the override file, or the refined position build_startable found.
C17_StarPixelsInCutoutGrid ==
    (call.op = "build_psf" /\ call.outcome \in {"ok", "SystemExit", "IndexError"}) =>
        LET sky == IF call.stars_file.some THEN call.stars_file.val ELSE disk.stars[call.img].val
        IN /\ Len(call.info.tbl) = Len(sky)
           /\ \A k \in DOMAIN sky :
                  /\ FracEq(call.info.tbl[k].x, WorldToPixel(call.info.cutwcs, sky[k]).x)
                  /\ FracEq(call.info.tbl[k].y, WorldToPixel(call.info.cutwcs, sky[k]).y)
\* The star passes the tests that come before the peaks are looked for.
PassedQuality(row) == CutoutOverlaps(TableData, TableWcs, row) /\ Scene(row.id).finite /\ Scene(row.id).nmask < 5

\* C18: in every star table build_startable returns, a star that passed the
\* quality tests has its row at its peak when it shows one peak, at the
\* maximum of its cutout when it shows none, and no row when it shows
\* several; the table has no other rows.
C18_CentroidGuessByPeakCount ==
    TableCall =>
        /\ \A k \in DOMAIN TableCoords :
               LET row == TableCoords[k]
                   sc == Scene(row.id)
               IN PassedQuality(row) =>
                      /\ Len(sc.peaks) = 1 => HasRowAt(row.ra + sc.peaks[1][1], row.dec + sc.peaks[1][2])
                      /\ Len(sc.peaks) = 0 => HasRowAt(row.ra + sc.argmax[1], row.dec + sc.argmax[2])
                      /\ Len(sc.peaks) > 1 => /\ ~HasRowAt(row.ra + sc.argmax[1], row.dec + sc.argmax[2])
                                              /\ \A j \in DOMAIN sc.peaks : ~HasRowAt(row.ra + sc.peaks[j][1], row.dec + sc.peaks[j][2])
        /\ Len(TableRows) = Cardinality({k \in DOMAIN TableCoords : PassedQuality(TableCoords[k]) /\ Len(Scene(TableCoords[k].id).peaks) <= 1})

\* A star table built from a star with one peak, a star with none and a
\* star with two, all three past the quality tests.
C18_Witness ==
    /\ TableCall /\ Len(TableRows) = 2
    /\ \A n \in 0..2 : \E k \in DOMAIN TableCoords : PassedQuality(TableCoords[k]) /\ Len(Scene(TableCoords[k].id).peaks) = n
====
